---- MODULE Spec2Model ----
(***************************************************************************)
(* Model of encode.py: the thermometer-puzzle encoder.                     *)
(*                                                                         *)
(* A text line of the input file is a sequence of one-character strings;   *)
(* a line of the produced fact text is a string.  Coordinates are 0-based  *)
(* as in the program; sequences are 1-based, so grid[row][col] of the      *)
(* program is At(grid, row, col) here.                                     *)
(***************************************************************************)
EXTENDS Integers, Sequences, FiniteSets, TLC

VARIABLES raw_lines, pc, output_path, parsed, extracted, content,
          stdout, stderr, out_file, raised, exit_code

vars == <<raw_lines, pc, output_path, parsed, extracted, content,
          stdout, stderr, out_file, raised, exit_code>>

----------------------------------------------------------------------------
(* Bounds of the model.                                                    *)

\* largest grid side of the well-formed inputs
MaxN == 2
\* a well-formed input's grid differs from the all-"R" grid in at most this many cells
MaxEdits == 2
\* largest number of lines of an input assembled from LinePool
MaxLines == 4

----------------------------------------------------------------------------
(* The symbol tables.                                                      *)

ALLOWED_CHARS == {"U", "D", "R", "L", "^", "v", ">", "<"}

BULBS == {"U", "D", "R", "L"}

\* the table with the step of the "L" bulb pointing right
DIRECTION_DELTAS_LeftBulbRight ==
    [ch \in ALLOWED_CHARS |->
        CASE ch \in {"U", "^"} -> <<-1, 0>>
          [] ch \in {"D", "v"} -> <<1, 0>>
          [] ch \in {"R", ">", "L"} -> <<0, 1>>
          [] ch \in {"<"} -> <<0, -1>>]

DIRECTION_DELTAS ==
    [ch \in ALLOWED_CHARS |->
        CASE ch \in {"U", "^"} -> <<-1, 0>>
          [] ch \in {"D", "v"} -> <<1, 0>>
          [] ch \in {"R", ">"} -> <<0, 1>>
          [] ch \in {"L", "<"} -> <<0, -1>>]

DIRECTION_NAMES ==
    [ch \in ALLOWED_CHARS |->
        CASE ch \in {"U", "^"} -> "up"
          [] ch \in {"D", "v"} -> "down"
          [] ch \in {"R", ">"} -> "right"
          [] ch \in {"L", "<"} -> "left"]

----------------------------------------------------------------------------
(* Text helpers: str.strip, str.split and int of the Python library.       *)

Whitespace == {" "}

Digits == {"0", "1", "2", "3", "4", "5", "6", "7", "8", "9"}

DigitValue(ch) ==
    CASE ch = "0" -> 0 [] ch = "1" -> 1 [] ch = "2" -> 2 [] ch = "3" -> 3
      [] ch = "4" -> 4 [] ch = "5" -> 5 [] ch = "6" -> 6 [] ch = "7" -> 7
      [] ch = "8" -> 8 [] ch = "9" -> 9

Chars(line) == {line[i] : i \in 1..Len(line)}

RECURSIVE lstrip(_)
lstrip(line) ==
    IF line # <<>> /\ Head(line) \in Whitespace THEN lstrip(Tail(line)) ELSE line

RECURSIVE rstrip(_)
rstrip(line) ==
    IF line # <<>> /\ line[Len(line)] \in Whitespace
    THEN rstrip(SubSeq(line, 1, Len(line) - 1))
    ELSE line

\* raw.strip()
strip(raw) == rstrip(lstrip(raw))

\* line.split(): the maximal runs of non-whitespace characters, in order
RECURSIVE SplitFrom(_, _, _, _)
SplitFrom(line, i, cur, acc) ==
    IF i > Len(line)
    THEN IF cur = <<>> THEN acc ELSE Append(acc, cur)
    ELSE IF line[i] \in Whitespace
         THEN SplitFrom(line, i + 1, <<>>, IF cur = <<>> THEN acc ELSE Append(acc, cur))
         ELSE SplitFrom(line, i + 1, Append(cur, line[i]), acc)

split(line) == SplitFrom(line, 1, <<>>, <<>>)

\* the digits of an integer literal: digits with single underscores between them
IsDigitGroup(body) ==
    /\ body # <<>>
    /\ Chars(body) \subseteq Digits \cup {"_"}
    /\ body[1] \in Digits
    /\ body[Len(body)] \in Digits
    /\ \A i \in 1..(Len(body) - 1) : ~(body[i] = "_" /\ body[i + 1] = "_")

Unsigned(token) ==
    IF token # <<>> /\ token[1] \in {"+", "-"} THEN Tail(token) ELSE token

\* int(token) succeeds
IsIntLiteral(token) == IsDigitGroup(Unsigned(token))

RECURSIVE DigitsValue(_, _)
DigitsValue(body, acc) ==
    IF body = <<>> THEN acc
    ELSE IF Head(body) = "_" THEN DigitsValue(Tail(body), acc)
         ELSE DigitsValue(Tail(body), 10 * acc + DigitValue(Head(body)))

\* int(token), for a token on which it succeeds
IntValue(token) ==
    IF token[1] = "-" THEN 0 - DigitsValue(Unsigned(token), 0)
    ELSE DigitsValue(Unsigned(token), 0)

----------------------------------------------------------------------------
(* parse_targets and parse_instance.  A result is a record whose err field *)
(* is "none" on success and the kind of the ValueError otherwise; arg is   *)
(* what the message names.                                                 *)

NoArg == <<>>

TargetsResult(err, arg, values) == [err |-> err, arg |-> arg, values |-> values]

\* parse_targets with the count compared before the tokens are converted
parse_targets_CountFirst(line, expected, kind) ==
    LET tokens == split(line)
    IN  IF Len(tokens) # expected
        THEN TargetsResult("TargetCountMismatch",
                           <<kind, expected, Len(tokens)>>, <<>>)
        ELSE IF \E i \in 1..Len(tokens) : ~IsIntLiteral(tokens[i])
             THEN TargetsResult("InvalidTargetValue", <<kind, line>>, <<>>)
             ELSE TargetsResult("none", NoArg,
                                [i \in 1..Len(tokens) |-> IntValue(tokens[i])])

parse_targets(line, expected, kind) ==
    LET tokens == split(line)
    IN  IF \E i \in 1..Len(tokens) : ~IsIntLiteral(tokens[i])
        THEN TargetsResult("InvalidTargetValue", <<kind, line>>, <<>>)
        ELSE IF Len(tokens) # expected
             THEN TargetsResult("TargetCountMismatch",
                                <<kind, expected, Len(tokens)>>, <<>>)
             ELSE TargetsResult("none", NoArg,
                                [i \in 1..Len(tokens) |-> IntValue(tokens[i])])

\* the non-blank stripped lines of the file, in order
RECURSIVE StrippedLines(_)
StrippedLines(lines) ==
    IF lines = <<>> THEN <<>>
    ELSE LET line == strip(Head(lines))
         IN  IF line = <<>> THEN StrippedLines(Tail(lines))
             ELSE <<line>> \o StrippedLines(Tail(lines))

IsGridLine(line) == Chars(line) \subseteq ALLOWED_CHARS

GridLines(lines) == SelectSeq(StrippedLines(lines), IsGridLine)

NumberLines(lines) == SelectSeq(StrippedLines(lines), LAMBDA l : ~IsGridLine(l))

FirstBadChar(row) ==
    row[CHOOSE i \in 1..Len(row) :
            /\ row[i] \notin ALLOWED_CHARS
            /\ \A j \in 1..(i - 1) : row[j] \in ALLOWED_CHARS]

\* the loop over the grid rows: the first failing check, as [err, arg]
RECURSIVE CheckRows(_, _, _)
CheckRows(grid_lines, i, size) ==
    IF i > Len(grid_lines) THEN [err |-> "none", arg |-> NoArg]
    ELSE IF Len(grid_lines[i]) # size
         THEN [err |-> "NonSquareGrid", arg |-> NoArg]
         ELSE IF ~(Chars(grid_lines[i]) \subseteq ALLOWED_CHARS)
              THEN [err |-> "InvalidSymbol", arg |-> FirstBadChar(grid_lines[i])]
              ELSE CheckRows(grid_lines, i + 1, size)

ParseResult(err, arg, grid, column_targets, row_targets) ==
    [err |-> err, arg |-> arg, grid |-> grid,
     column_targets |-> column_targets, row_targets |-> row_targets]

ParseError(err, arg) == ParseResult(err, arg, <<>>, <<>>, <<>>)

parse_instance(lines) ==
    LET grid_lines == GridLines(lines)
        number_lines == NumberLines(lines)
        size == Len(grid_lines)
        rows == CheckRows(grid_lines, 1, size)
    IN  IF grid_lines = <<>> THEN ParseError("EmptyGrid", NoArg)
        ELSE IF rows.err # "none" THEN ParseError(rows.err, rows.arg)
        ELSE IF Len(number_lines) # 2 THEN ParseError("TargetLineCountMismatch", NoArg)
        ELSE LET cols == parse_targets(number_lines[1], size, "column")
             IN  IF cols.err # "none" THEN ParseError(cols.err, cols.arg)
                 ELSE LET rws == parse_targets(number_lines[2], size, "row")
                      IN  IF rws.err # "none" THEN ParseError(rws.err, rws.arg)
                          ELSE ParseResult("none", NoArg, grid_lines,
                                           cols.values, rws.values)

----------------------------------------------------------------------------
(* extract_thermometers.  visited is the set of coordinates whose marker   *)
(* is set.  A result is a record: err is "none" and thermometers the       *)
(* returned list, or err is the kind of the ValueError and at the          *)
(* coordinate the message names.                                           *)

At(grid, row, col) == grid[row + 1][col + 1]

Thermometer(bulb_row, bulb_col, direction, cells) ==
    [bulb_row |-> bulb_row, bulb_col |-> bulb_col,
     direction |-> direction, cells |-> cells]

InGrid(size, row, col) == 0 <= row /\ row < size /\ 0 <= col /\ col < size

\* the walk goes on over any chain symbol, whatever its direction
ChainContinuesAnyChain(grid, next_row, next_col, direction) ==
    grid[next_row + 1][next_col + 1] \notin BULBS

\* the walk goes on over any symbol of its direction, bulbs included
ChainContinuesOverBulbs(grid, next_row, next_col, direction) ==
    DIRECTION_DELTAS[grid[next_row + 1][next_col + 1]] = direction

\* the walk goes on to the next cell: it holds no bulb and a symbol of the
\* walk's direction
ChainContinues(grid, next_row, next_col, direction) ==
    LET next_char == At(grid, next_row, next_col)
    IN  /\ next_char \notin BULBS
        /\ DIRECTION_DELTAS[next_char] = direction

WalkResult(err, at, visited, cells) ==
    [err |-> err, at |-> at, visited |-> visited, cells |-> cells]

\* the while loop of one bulb
RECURSIVE Walk(_, _, _, _, _, _, _)
Walk(grid, direction, current_row, current_col, index, visited, cells) ==
    IF <<current_row, current_col>> \in visited
    THEN WalkResult("OverlappingThermometer", <<current_row, current_col>>,
                    visited, cells)
    ELSE LET marked == visited \cup {<<current_row, current_col>>}
             grown == Append(cells, <<index, current_row, current_col>>)
             next_row == current_row + direction[1]
             next_col == current_col + direction[2]
         IN  IF ~InGrid(Len(grid), next_row, next_col)
             THEN WalkResult("none", NoArg, marked, grown)
             ELSE IF ~ChainContinues(grid, next_row, next_col, direction)
                  THEN WalkResult("none", NoArg, marked, grown)
                  ELSE Walk(grid, direction, next_row, next_col, index + 1,
                            marked, grown)

\* the k-th cell of a column-major scan
ScanCellColumnMajor(size, k) == <<k % size, k \div size>>

\* the k-th cell of the row-major scan, k = 0, 1, ...
ScanCell(size, k) == <<k \div size, k % size>>

ExtractResult(err, at, thermometers) ==
    [err |-> err, at |-> at, thermometers |-> thermometers]

\* the closing loops left out
CoverageScanNone(size, k, visited, thermometers) ==
    ExtractResult("none", NoArg, thermometers)

\* the closing loops naming the last cell that no walk marked
CoverageScanLast(size, k, visited, thermometers) ==
    LET missed == {j \in 0..(size * size - 1) : ScanCell(size, j) \notin visited}
    IN  IF missed = {} THEN ExtractResult("none", NoArg, thermometers)
        ELSE ExtractResult("UncoveredCell",
                           ScanCell(size, CHOOSE j \in missed : \A i \in missed : i <= j),
                           <<>>)

\* the closing loops: the first cell of the scan that no walk marked
RECURSIVE CoverageScan(_, _, _, _)
CoverageScan(size, k, visited, thermometers) ==
    IF k >= size * size THEN ExtractResult("none", NoArg, thermometers)
    ELSE IF ScanCell(size, k) \notin visited
         THEN ExtractResult("UncoveredCell", ScanCell(size, k), <<>>)
         ELSE CoverageScan(size, k + 1, visited, thermometers)

\* the loops over the bulbs, from the k-th cell of the scan on
RECURSIVE ScanBulbs(_, _, _, _)
ScanBulbs(grid, k, visited, thermometers) ==
    LET size == Len(grid)
        row == ScanCell(size, k)[1]
        col == ScanCell(size, k)[2]
        char == At(grid, row, col)
    IN  IF k >= size * size THEN CoverageScan(size, 0, visited, thermometers)
        ELSE IF char \in BULBS /\ <<row, col>> \notin visited
             THEN LET w == Walk(grid, DIRECTION_DELTAS[char], row, col, 1,
                                visited, <<>>)
                  IN  IF w.err # "none" THEN ExtractResult(w.err, w.at, <<>>)
                      ELSE ScanBulbs(grid, k + 1, w.visited,
                                     Append(thermometers,
                                            Thermometer(row, col,
                                                        DIRECTION_NAMES[char],
                                                        w.cells)))
             ELSE ScanBulbs(grid, k + 1, visited, thermometers)

extract_thermometers(grid) == ScanBulbs(grid, 0, {}, <<>>)

----------------------------------------------------------------------------
(* render_facts.  The text is the list of lines joined by newlines, with   *)
(* the trailing whitespace removed and one newline added.  No line of the  *)
(* list ends in whitespace, so rstrip removes exactly the empty lines at   *)
(* the end of the list and the newlines that would join them.              *)

RowFacts(size) == [i \in 1..size |-> "row(" \o ToString(i - 1) \o ")."]

ColFacts(size) == [i \in 1..size |-> "col(" \o ToString(i - 1) \o ")."]

\* the cell facts in column-major order
CellFactsColumnMajor(size) ==
    [k \in 1..(size * size) |->
        "cell(" \o ToString((k - 1) % size) \o "," \o
                   ToString((k - 1) \div size) \o ")."]

CellFacts(size) ==
    [k \in 1..(size * size) |->
        "cell(" \o ToString((k - 1) \div size) \o "," \o
                   ToString((k - 1) % size) \o ")."]

ColTargetFacts(column_targets) ==
    [i \in 1..Len(column_targets) |->
        "col_target(" \o ToString(i - 1) \o "," \o
                         ToString(column_targets[i]) \o ")."]

RowTargetFacts(row_targets) ==
    [i \in 1..Len(row_targets) |->
        "row_target(" \o ToString(i - 1) \o "," \o
                         ToString(row_targets[i]) \o ")."]

BulbText(thermo) == ToString(thermo.bulb_row) \o "," \o ToString(thermo.bulb_col)

ThermoCellFacts(thermo) ==
    [i \in 1..Len(thermo.cells) |->
        "thermo_cell(" \o BulbText(thermo) \o "," \o
            ToString(thermo.cells[i][1]) \o "," \o
            ToString(thermo.cells[i][2]) \o "," \o
            ToString(thermo.cells[i][3]) \o ")."]

ThermoFacts(thermo) ==
    << "thermometer(" \o BulbText(thermo) \o ").",
       "thermo_dir(" \o BulbText(thermo) \o "," \o thermo.direction \o ").",
       "thermo_length(" \o BulbText(thermo) \o "," \o
           ToString(Len(thermo.cells)) \o ")." >>
    \o ThermoCellFacts(thermo) \o <<"">>

RECURSIVE AllThermoFacts(_)
AllThermoFacts(thermometers) ==
    IF thermometers = <<>> THEN <<>>
    ELSE ThermoFacts(Head(thermometers)) \o AllThermoFacts(Tail(thermometers))

\* the list named lines when the loops are over
RenderLines(grid, column_targets, row_targets, thermometers) ==
    LET size == Len(grid)
    IN  <<"#const n=" \o ToString(size) \o ".", "">>
        \o RowFacts(size) \o <<"">>
        \o ColFacts(size) \o <<"">>
        \o CellFacts(size) \o <<"">>
        \o ColTargetFacts(column_targets) \o <<"">>
        \o RowTargetFacts(row_targets) \o <<"">>
        \o AllThermoFacts(thermometers)

RECURSIVE DropTrailingBlank(_)
DropTrailingBlank(lines) ==
    IF lines # <<>> /\ lines[Len(lines)] = ""
    THEN DropTrailingBlank(SubSeq(lines, 1, Len(lines) - 1))
    ELSE lines

RECURSIVE JoinLines(_)
JoinLines(lines) ==
    IF lines = <<>> THEN ""
    ELSE IF Len(lines) = 1 THEN lines[1]
         ELSE lines[1] \o "\n" \o JoinLines(Tail(lines))

\* "\n".join(lines).rstrip() + "\n"
render_facts(grid, column_targets, row_targets, thermometers) ==
    JoinLines(DropTrailingBlank(
        RenderLines(grid, column_targets, row_targets, thermometers))) \o "\n"

----------------------------------------------------------------------------
(* The inputs: the lines of the input file.                                *)

DigitChars == <<"0", "1", "2", "3", "4", "5", "6", "7", "8", "9">>

\* the line of n one-digit tokens first, first + 1, ... separated by blanks
RECURSIVE TargetLine(_, _)
TargetLine(n, first) ==
    IF n = 0 THEN <<>>
    ELSE IF n = 1 THEN <<DigitChars[(first % 10) + 1]>>
         ELSE <<DigitChars[(first % 10) + 1], " ">> \o TargetLine(n - 1, first + 1)

GridCells(n) == (1..n) \X (1..n)

\* the sets of at most MaxEdits cells of the n x n grid
EditSets(n) == {S \in SUBSET GridCells(n) : Cardinality(S) <= MaxEdits}

\* the n x n grid of "R" bulbs with the cells of S replaced as f says
EditedGrid(n, S, f) ==
    [r \in 1..n |-> [c \in 1..n |-> IF <<r, c>> \in S THEN f[<<r, c>>] ELSE "R"]]

\* a grid followed by a line of column targets and a line of row targets
WellFormedInput(grid) ==
    grid \o <<TargetLine(Len(grid), 1), TargetLine(Len(grid), 5)>>

\* lines that exercise the parser: blank, grid rows of two lengths, a row with
\* a foreign character, and target lines with signs, zeros and a bad token
LinePool ==
    { <<" ">>,
      <<"R", ">">>,
      <<"L">>,
      <<"U", "X">>,
      <<"1", " ", "2">>,
      <<" ", "+", "3", " ", " ", "0", "4", " ">>,
      <<"-", "1">>,
      <<"1", " ", "x">> }

----------------------------------------------------------------------------
(* main, one action per stage.  stderr holds the error that the message    *)
(* printed there describes; raised holds the exception that leaves main.   *)

NoError == [err |-> "none", arg |-> NoArg]

NoParse == ParseResult("none", NoArg, <<>>, <<>>, <<>>)

UsageText == "Usage: python3 encode.py <input-file> [<output-file>]\n"

Init ==
    /\ raw_lines = <<>>
    /\ pc = "start"
    /\ output_path = "unset"
    /\ parsed = NoParse
    /\ extracted = <<>>
    /\ content = ""
    /\ stdout = ""
    /\ stderr = NoError
    /\ out_file = ""
    /\ raised = NoError
    /\ exit_code = -1

\* the checks of the argument list: its length and the two file extensions
CheckArgs ==
    /\ pc = "start"
    /\ \E argc \in 1..4, in_txt \in BOOLEAN, out_lp \in BOOLEAN :
        IF argc \notin {2, 3}
        THEN /\ stdout' = UsageText
             /\ exit_code' = 1
             /\ pc' = "exit"
             /\ UNCHANGED <<stderr, output_path>>
        ELSE IF ~in_txt
        THEN /\ stderr' = [err |-> "InputExtension", arg |-> NoArg]
             /\ exit_code' = 1
             /\ pc' = "exit"
             /\ UNCHANGED <<stdout, output_path>>
        ELSE IF argc = 3 /\ ~out_lp
        THEN /\ stderr' = [err |-> "OutputExtension", arg |-> NoArg]
             /\ exit_code' = 1
             /\ pc' = "exit"
             /\ UNCHANGED <<stdout, output_path>>
        ELSE /\ output_path' = IF argc = 3 THEN "file" ELSE "None"
             /\ pc' = "parse"
             /\ UNCHANGED <<stdout, stderr, exit_code>>
    /\ UNCHANGED <<raw_lines, parsed, extracted, content, out_file, raised>>

\* parse_instance on the input file: missing, unreadable, or holding lines
ReadAndParse(status, lines) ==
    IF status = "missing" THEN ParseError("MissingFile", NoArg)
    ELSE IF status = "unreadable" THEN ParseError("UnreadableFile", NoArg)
    ELSE parse_instance(lines)

\* the call of parse_instance and the handler of its ValueError
ParseFile(status, lines) ==
    LET result == ReadAndParse(status, lines)
    IN  /\ raw_lines' = lines
        /\ IF result.err # "none"
           THEN /\ stderr' = [err |-> result.err, arg |-> result.arg]
                /\ exit_code' = 1
                /\ pc' = "exit"
                /\ UNCHANGED parsed
           ELSE /\ parsed' = result
                /\ pc' = "extract"
                /\ UNCHANGED <<stderr, exit_code>>
        /\ UNCHANGED <<output_path, extracted, content, stdout, out_file, raised>>

\* the input file is missing or unreadable
ParseNoFile ==
    /\ pc = "parse"
    /\ \E status \in {"missing", "unreadable"} : ParseFile(status, <<>>)

\* the input file holds at most MaxLines lines of LinePool
ParsePool ==
    /\ pc = "parse"
    /\ \E len \in 0..MaxLines : \E lines \in [1..len -> LinePool] :
          ParseFile("ok", lines)

\* the input file holds a grid of side at most MaxN and two target lines
ParseGrid ==
    /\ pc = "parse"
    /\ \E n \in 1..MaxN : \E S \in EditSets(n) :
          \E f \in [S -> ALLOWED_CHARS \ {"R"}] :
              ParseFile("ok", WellFormedInput(EditedGrid(n, S, f)))

\* the extraction stage writing the facts it has before the error leaves main
ExtractEmitsPartial ==
    /\ pc = "extract"
    /\ LET result == extract_thermometers(parsed.grid)
       IN  IF result.err # "none"
           THEN /\ raised' = [err |-> result.err, arg |-> result.at]
                /\ stdout' = render_facts(parsed.grid, parsed.column_targets,
                                          parsed.row_targets, <<>>)
                /\ pc' = "raised"
                /\ UNCHANGED extracted
           ELSE /\ extracted' = result.thermometers
                /\ pc' = "render"
                /\ UNCHANGED <<raised, stdout>>
    /\ UNCHANGED <<raw_lines, output_path, parsed, content, stderr,
                   out_file, exit_code>>

\* extract_thermometers; its ValueError is not caught and leaves main
Extract ==
    /\ pc = "extract"
    /\ LET result == extract_thermometers(parsed.grid)
       IN  IF result.err # "none"
           THEN /\ raised' = [err |-> result.err, arg |-> result.at]
                /\ pc' = "raised"
                /\ UNCHANGED extracted
           ELSE /\ extracted' = result.thermometers
                /\ pc' = "render"
                /\ UNCHANGED raised
    /\ UNCHANGED <<raw_lines, output_path, parsed, content, stdout, stderr,
                   out_file, exit_code>>

Render ==
    /\ pc = "render"
    /\ content' = render_facts(parsed.grid, parsed.column_targets,
                               parsed.row_targets, extracted)
    /\ pc' = "write"
    /\ UNCHANGED <<raw_lines, output_path, parsed, extracted, stdout, stderr,
                   out_file, raised, exit_code>>

Write ==
    /\ pc = "write"
    /\ IF output_path = "None"
       THEN stdout' = content /\ UNCHANGED out_file
       ELSE out_file' = content /\ UNCHANGED stdout
    /\ exit_code' = 0
    /\ pc' = "exit"
    /\ UNCHANGED <<raw_lines, output_path, parsed, extracted, content, stderr, raised>>

Next == CheckArgs \/ ParseNoFile \/ ParsePool \/ ParseGrid \/ Extract \/ Render \/ Write

Spec == Init /\ [][Next]_vars

----------------------------------------------------------------------------
(* Vocabulary of the properties, stated without the program's tables.      *)

\* extract_thermometers has returned its list
ExtractReturned == pc \in {"render", "write"} \/ (pc = "exit" /\ exit_code = 0)

\* extract_thermometers has returned or raised
ExtractFinished == ExtractReturned \/ pc = "raised"

\* render_facts has returned
RenderReturned == pc = "write" \/ (pc = "exit" /\ exit_code = 0)

\* parse_instance has read the lines of the file and returned or raised
ParseFinished ==
    /\ pc \notin {"start", "parse"}
    /\ output_path # "unset"
    /\ stderr.err \notin {"MissingFile", "UnreadableFile"}

Side == Len(parsed.grid)

Coords == (0..(Side - 1)) \X (0..(Side - 1))

Symbol(cell) == parsed.grid[cell[1] + 1][cell[2] + 1]

BulbSymbols == {"U", "D", "L", "R"}

ChainSymbols == {"^", "v", "<", ">"}

\* the unit step a symbol declares
UnitStep(sym) ==
    CASE sym \in {"U", "^"} -> <<-1, 0>>
      [] sym \in {"D", "v"} -> <<1, 0>>
      [] sym \in {"L", "<"} -> <<0, -1>>
      [] sym \in {"R", ">"} -> <<0, 1>>

\* the chain symbol of a bulb symbol's direction
ChainOf(bulb) ==
    CASE bulb = "U" -> "^" [] bulb = "D" -> "v" [] bulb = "L" -> "<" [] bulb = "R" -> ">"

Shift(cell, step, k) == <<cell[1] + k * step[1], cell[2] + k * step[2]>>

Bulb(t) == <<extracted[t].bulb_row, extracted[t].bulb_col>>

CellAt(t, i) == <<extracted[t].cells[i][2], extracted[t].cells[i][3]>>

\* the places (thermometer, position) of the returned list that hold a cell
Places(cell) ==
    {p \in UNION {{<<t, i>> : i \in 1..Len(extracted[t].cells)} : t \in 1..Len(extracted)} :
        CellAt(p[1], p[2]) = cell}

RowMajorBefore(a, b) == a[1] < b[1] \/ (a[1] = b[1] /\ a[2] < b[2])

\* a chain cell from which the same chain symbol leads back to no bulb of its direction
Unreached(cell) ==
    /\ Symbol(cell) \in ChainSymbols
    /\ ~ \E k \in 1..Side :
          LET back == Shift(cell, UnitStep(Symbol(cell)), 0 - k)
          IN  /\ back \in Coords
              /\ Symbol(back) \in BulbSymbols
              /\ ChainOf(Symbol(back)) = Symbol(cell)
              /\ \A j \in 1..(k - 1) :
                    Symbol(Shift(cell, UnitStep(Symbol(cell)), 0 - j)) = Symbol(cell)

UnreachedCells == {cell \in Coords : Unreached(cell)}

----------------------------------------------------------------------------
\* C1: when extract_thermometers returns, every coordinate of the grid is at
\* exactly one place of exactly one returned thermometer, and every listed
\* cell is a coordinate of the grid.
C1_Partition ==
    ExtractReturned =>
        /\ \A cell \in Coords : Cardinality(Places(cell)) = 1
        /\ \A t \in 1..Len(extracted) : \A i \in 1..Len(extracted[t].cells) :
              CellAt(t, i) \in Coords

\* a 2 x 2 grid split into a thermometer of two cells and two of one cell
C1_Witness ==
    /\ ExtractReturned
    /\ Side = 2
    /\ Len(extracted) = 3
    /\ \E t \in 1..Len(extracted) : Len(extracted[t].cells) = 2

\* C2: every returned thermometer starts at its bulb with ordinal 1, numbers
\* its cells 1, 2, ..., and each cell is the previous one moved by the unit
\* step of the bulb symbol.
C2_OrderedSteps ==
    ExtractReturned =>
        \A t \in 1..Len(extracted) :
            LET cells == extracted[t].cells
            IN  /\ Len(cells) >= 1
                /\ cells[1] = <<1, Bulb(t)[1], Bulb(t)[2]>>
                /\ \A i \in 1..Len(cells) : cells[i][1] = i
                /\ \A i \in 2..Len(cells) :
                      CellAt(t, i) = Shift(CellAt(t, i - 1), UnitStep(Symbol(Bulb(t))), 1)

\* a returned thermometer of two cells that runs left, against the scan
C2_Witness ==
    /\ ExtractReturned
    /\ \E t \in 1..Len(extracted) :
          /\ Symbol(Bulb(t)) = "L"
          /\ Len(extracted[t].cells) = 2
          /\ CellAt(t, 2) = <<Bulb(t)[1], Bulb(t)[2] - 1>>

\* C3: every returned thermometer is maximal: past its last cell lies the
\* edge, a bulb, or a chain symbol of another direction; and every cell
\* after the bulb holds the chain symbol of the bulb's direction.
C3_Maximal ==
    ExtractReturned =>
        \A t \in 1..Len(extracted) :
            LET cells == extracted[t].cells
                bulb == Symbol(Bulb(t))
                past == Shift(CellAt(t, Len(cells)), UnitStep(bulb), 1)
            IN  /\ \/ past \notin Coords
                   \/ Symbol(past) \in BulbSymbols
                   \/ Symbol(past) \in ChainSymbols \ {ChainOf(bulb)}
                /\ \A i \in 2..Len(cells) : Symbol(CellAt(t, i)) = ChainOf(bulb)

\* a returned thermometer that ends before a chain symbol of another direction
C3_Witness ==
    /\ ExtractReturned
    /\ \E t \in 1..Len(extracted) :
          LET past == Shift(CellAt(t, Len(extracted[t].cells)),
                            UnitStep(Symbol(Bulb(t))), 1)
          IN  /\ past \in Coords
              /\ Symbol(past) \in ChainSymbols \ {ChainOf(Symbol(Bulb(t)))}

\* C4: extract_thermometers raises UncoveredCell exactly when the grid has an
\* unreached chain cell, and the error names the first such cell in
\* row-major order.
C4_UncoveredCell ==
    ExtractFinished =>
        /\ (pc = "raised" /\ raised.err = "UncoveredCell") <=> UnreachedCells # {}
        /\ (pc = "raised" /\ raised.err = "UncoveredCell") =>
              /\ raised.arg \in UnreachedCells
              /\ \A cell \in UnreachedCells \ {raised.arg} :
                    RowMajorBefore(raised.arg, cell)

\* UncoveredCell raised on a grid with two unreached chain cells
C4_Witness ==
    /\ pc = "raised"
    /\ raised.err = "UncoveredCell"
    /\ Cardinality(UnreachedCells) = 2

\* C8: the returned list holds exactly one thermometer per bulb cell, in
\* strictly increasing row-major order of the bulbs.
C8_OnePerBulbInScanOrder ==
    ExtractReturned =>
        /\ {Bulb(t) : t \in 1..Len(extracted)} =
              {cell \in Coords : Symbol(cell) \in BulbSymbols}
        /\ \A t \in 1..Len(extracted), u \in 1..Len(extracted) :
              t < u => RowMajorBefore(Bulb(t), Bulb(u))

\* a returned list with bulbs in both rows and both columns
C8_Witness ==
    /\ ExtractReturned
    /\ Side = 2
    /\ Len(extracted) = 4

\* C9: extract_thermometers never raises OverlappingThermometer, and a bulb
\* whose next cell is another bulb or off the board gives a thermometer of
\* length 1.
C9_NoOverlap ==
    /\ pc = "raised" => raised.err # "OverlappingThermometer"
    /\ ExtractReturned =>
          \A t \in 1..Len(extracted) :
              LET next == Shift(Bulb(t), UnitStep(Symbol(Bulb(t))), 1)
              IN  (next \notin Coords \/ Symbol(next) \in BulbSymbols)
                      => Len(extracted[t].cells) = 1

\* a returned list where a bulb points at an adjacent bulb of its own direction
\* and another bulb points off the board
C9_Witness ==
    /\ ExtractReturned
    /\ \E t \in 1..Len(extracted) :
          LET next == Shift(Bulb(t), UnitStep(Symbol(Bulb(t))), 1)
          IN  /\ next \in Coords
              /\ Symbol(next) = Symbol(Bulb(t))
              /\ Len(extracted[t].cells) = 1
    /\ \E t \in 1..Len(extracted) :
          Shift(Bulb(t), UnitStep(Symbol(Bulb(t))), 1) \notin Coords

----------------------------------------------------------------------------
(* Vocabulary of the properties of the parser and the renderer.            *)

\* the non-blank lines of the file, without the blanks around them
NonBlankLines == SelectSeq([i \in 1..Len(raw_lines) |-> strip(raw_lines[i])],
                           LAMBDA l : l # <<>>)

OnlyAlphabet(line) == \A i \in 1..Len(line) : line[i] \in ALLOWED_CHARS

\* the lines that consist only of alphabet symbols, and the other lines
AlphabetLines == SelectSeq(NonBlankLines, OnlyAlphabet)

OtherLines == SelectSeq(NonBlankLines, LAMBDA l : ~OnlyAlphabet(l))

\* a line that holds alphabet symbols and a character that is neither an
\* alphabet symbol nor part of a target line
ForeignChars(line) ==
    {line[i] : i \in 1..Len(line)}
        \ (ALLOWED_CHARS \cup Digits \cup Whitespace \cup {"+", "-", "_"})

IsForeignRow(line) ==
    /\ \E i \in 1..Len(line) : line[i] \in ALLOWED_CHARS
    /\ ForeignChars(line) # {}

\* some token of the line is no integer
BadTokens(line) == \E i \in 1..Len(split(line)) : ~IsIntLiteral(split(line)[i])

\* the first failing check of a target line, "none" when it passes
TargetDefect(line) ==
    IF BadTokens(line) THEN "InvalidTargetValue"
    ELSE IF Len(split(line)) # Len(AlphabetLines) THEN "TargetCountMismatch"
    ELSE "none"

NotSquare == \E i \in 1..Len(AlphabetLines) : Len(AlphabetLines[i]) # Len(AlphabetLines)

\* the error the fixed order of checks reports for the lines of the file
FirstDefect ==
    IF AlphabetLines = <<>> THEN <<"EmptyGrid">>
    ELSE IF NotSquare THEN <<"NonSquareGrid">>
    ELSE IF Len(OtherLines) # 2 THEN <<"TargetLineCountMismatch">>
    ELSE IF TargetDefect(OtherLines[1]) # "none"
         THEN <<TargetDefect(OtherLines[1]), "column">>
    ELSE IF TargetDefect(OtherLines[2]) # "none"
         THEN <<TargetDefect(OtherLines[2]), "row">>
    ELSE <<"none">>

\* the error parse_instance reported, with the kind of target line it names
ReportedDefect ==
    IF stderr.err \in {"InvalidTargetValue", "TargetCountMismatch"}
    THEN <<stderr.err, stderr.arg[1]>>
    ELSE <<stderr.err>>

----------------------------------------------------------------------------
\* an input that is well formed but for one row: as many rows as each row is
\* long, exactly one of them with a foreign character, and two lines of as
\* many integers
ForeignRowInput ==
    LET rows == SelectSeq(NonBlankLines,
                          LAMBDA l : OnlyAlphabet(l) \/ IsForeignRow(l))
        rest == SelectSeq(NonBlankLines,
                          LAMBDA l : ~OnlyAlphabet(l) /\ ~IsForeignRow(l))
    IN  /\ Cardinality({i \in 1..Len(rows) : IsForeignRow(rows[i])}) = 1
        /\ \A i \in 1..Len(rows) : Len(rows[i]) = Len(rows)
        /\ Len(rest) = 2
        /\ \A i \in 1..2 : ~BadTokens(rest[i]) /\ Len(split(rest[i])) = Len(rows)

\* C5: when a grid row of an otherwise well-formed input holds a character
\* outside the alphabet, parsing fails with InvalidSymbol naming that character.
C5_InvalidSymbol ==
    (ParseFinished /\ ForeignRowInput)
        => /\ stderr.err = "InvalidSymbol"
           /\ \E i \in 1..Len(NonBlankLines) : stderr.arg \in ForeignChars(NonBlankLines[i])

\* C10: parse_instance reports the first failing check of the fixed order:
\* EmptyGrid, NonSquareGrid, TargetLineCountMismatch, then for the column line
\* and then for the row line InvalidTargetValue before TargetCountMismatch; so
\* a non-square grid with a wrong number of target lines gives NonSquareGrid.
C10_CheckOrder ==
    ParseFinished =>
        /\ ReportedDefect = FirstDefect
        /\ (AlphabetLines # <<>> /\ NotSquare /\ Len(OtherLines) # 2)
              => stderr.err = "NonSquareGrid"

\* a non-square grid with a wrong number of target lines was parsed, or a
\* column line with both a bad token and a wrong count
C10_Witness ==
    /\ ParseFinished
    /\ \/ /\ AlphabetLines # <<>> /\ NotSquare /\ Len(OtherLines) = 3
          /\ stderr.err = "NonSquareGrid"
       \/ /\ stderr.err = "InvalidTargetValue"
          /\ Len(split(OtherLines[1])) # Len(AlphabetLines)

----------------------------------------------------------------------------
(* The fact text the renderer is to produce, written out from the input.   *)

RECURSIVE Text(_)
Text(chars) == IF chars = <<>> THEN "" ELSE Head(chars) \o Text(Tail(chars))

RECURSIVE StripZeros(_)
StripZeros(digits) ==
    IF Len(digits) > 1 /\ Head(digits) = "0" THEN StripZeros(Tail(digits)) ELSE digits

\* the decimal numeral of the integer a token denotes
Numeral(token) ==
    LET digits == StripZeros(SelectSeq(IF token[1] \in {"+", "-"} THEN Tail(token)
                                       ELSE token,
                                       LAMBDA ch : ch # "_"))
    IN  IF token[1] = "-" /\ digits # <<"0">> THEN "-" \o Text(digits)
        ELSE Text(digits)

DirectionWord(bulb) ==
    CASE bulb = "U" -> "up" [] bulb = "D" -> "down"
      [] bulb = "L" -> "left" [] bulb = "R" -> "right"

\* the lines of a group, each ended by a newline
RECURSIVE Block(_)
Block(lines) == IF lines = <<>> THEN "" ELSE Head(lines) \o "\n" \o Block(Tail(lines))

ExpectedThermometer(t) ==
    LET at == ToString(Bulb(t)[1]) \o "," \o ToString(Bulb(t)[2])
        cell_facts == [i \in 1..Len(extracted[t].cells) |->
                          "thermo_cell(" \o at \o "," \o ToString(i) \o "," \o
                              ToString(CellAt(t, i)[1]) \o "," \o
                              ToString(CellAt(t, i)[2]) \o ")."]
    IN  Block(<<"thermometer(" \o at \o ").",
                "thermo_dir(" \o at \o "," \o DirectionWord(Symbol(Bulb(t))) \o ").",
                "thermo_length(" \o at \o "," \o ToString(Len(cell_facts)) \o ").">>)
        \o Block(cell_facts)

\* the thermometers from the t-th on, a blank line before each
RECURSIVE ExpectedThermometers(_)
ExpectedThermometers(t) ==
    IF t > Len(extracted) THEN ""
    ELSE "\n" \o ExpectedThermometer(t) \o ExpectedThermometers(t + 1)

ExpectedText ==
    LET n == Len(AlphabetLines)
        col_tokens == split(OtherLines[1])
        row_tokens == split(OtherLines[2])
    IN  Block(<<"#const n=" \o ToString(n) \o ".">>) \o "\n"
        \o Block([i \in 1..n |-> "row(" \o ToString(i - 1) \o ")."]) \o "\n"
        \o Block([i \in 1..n |-> "col(" \o ToString(i - 1) \o ")."]) \o "\n"
        \o Block([k \in 1..(n * n) |->
                     "cell(" \o ToString((k - 1) \div n) \o "," \o
                                ToString((k - 1) % n) \o ")."]) \o "\n"
        \o Block([i \in 1..n |-> "col_target(" \o ToString(i - 1) \o "," \o
                                    Numeral(col_tokens[i]) \o ")."]) \o "\n"
        \o Block([i \in 1..n |-> "row_target(" \o ToString(i - 1) \o "," \o
                                    Numeral(row_tokens[i]) \o ")."])
        \o ExpectedThermometers(1)

\* C7: for a valid input of size n the rendered text is, in this order: the
\* size constant, n row facts, n col facts, n*n cell facts in row-major order,
\* n col_target facts from the tokens of the first non-grid line, n row_target
\* facts from those of the second, then per thermometer in extraction order
\* its thermometer, thermo_dir and thermo_length facts and one thermo_cell
\* fact per cell, thermo_length being the number of thermo_cell facts.
C7_FactOrder == RenderReturned => content = ExpectedText

\* a rendered 2 x 2 input with several thermometers whose column tokens carry
\* a sign and a leading zero
C7_Witness ==
    /\ RenderReturned
    /\ Side = 2
    /\ Len(extracted) = 2
    /\ split(OtherLines[1]) = <<<<"+", "3">>, <<"0", "4">>>>
    /\ split(OtherLines[2]) = <<<<"1">>, <<"2">>>>

----------------------------------------------------------------------------
\* no fact text is on stdout (the usage line is none) or in the output file
NothingWritten == stdout \in {"", UsageText} /\ out_file = ""

\* the run has ended in an error
EndedInError == pc = "raised" \/ (pc = "exit" /\ exit_code # 0)

\* C6: an error of any stage ends the run as that error, with no fact text
\* written; fact text is written only once parse, extract and render have
\* all succeeded, and then it is the rendered text.
C6_NoPartialOutput ==
    /\ EndedInError => NothingWritten
    /\ pc \notin {"exit", "raised"} => NothingWritten
    /\ (pc = "exit" /\ exit_code = 0) =>
          /\ FirstDefect = <<"none">>
          /\ UnreachedCells = {}
          /\ content # ""
          /\ IF output_path = "None"
             THEN stdout = content /\ out_file = ""
             ELSE out_file = content /\ stdout = ""
    /\ (ParseFinished /\ FirstDefect # <<"none">>) =>
          pc = "exit" /\ exit_code = 1 /\ stderr.err = FirstDefect[1]
    /\ (ExtractFinished /\ UnreachedCells # {}) =>
          pc = "raised" /\ raised.err = "UncoveredCell" /\ stderr.err = "none"

\* a run to a file that parsed its input and ended in an extraction error
C6_Witness ==
    /\ pc = "raised"
    /\ output_path = "file"
    /\ raised.err = "UncoveredCell"
    /\ NothingWritten

====
